---- MODULE Spec2Model ----
(***************************************************************************)
(* Model of src/app.py: the Streamlit script that, on every run, loads a   *)
(* product's master data, lead-time statistics and monthly demand through  *)
(* three memoised queries and, when the data suffices, computes the        *)
(* reliability score, the recommended safety stock, the risk-adjusted      *)
(* reorder point and a 30-day stock projection.                            *)
(*                                                                         *)
(* Python floats are modelled as fixed-point numbers: the integer x stands *)
(* for the real x / Scale.  Python ints (stock, quantities, lead times in  *)
(* days, the recommended safety stock) are plain integers.                 *)
(***************************************************************************)
EXTENDS Integers, Sequences, FiniteSets, TLC

\* ------------------------------------------------------------------ bounds
\* Resolution of the fixed-point model of floats.
Scale == 100
\* Largest number of joined order lines of a product in the wide snapshots.
MaxOrders == 2
\* Largest number of script runs (product selections) in one behaviour.
MaxRequests == 2

\* Values the snapshot's columns are drawn from.
Months == {1, 2}
Quantities == {0, 45, 300}
LeadTimes == {-1, 1, 7, 9, 30}
Stocks == {0, 100}
ContractLeadTimes == {0, 5}

\* SQL NULL and Python None are the empty tuple; a present value v is <<v>>.
None == <<>>

Some(v) == <<v>>

Val(o) == o[1]

\* ------------------------------------------------------- program constants
DaysPerMonth == 30
DelayWeight == 10
VarianceWeight == 5
FullScore == 100
ZNum == 165
ZDen == 100
BufferDays == 2
RedBelow == 60
OrangeBelow == 80
WarnBelow == 80
Horizon == 30

\* --------------------------------------------------------------- numerics
Max(a, b) == IF a >= b THEN a ELSE b

Min(a, b) == IF a <= b THEN a ELSE b

\* An int as a float.
F(n) == n * Scale

\* Product of two floats.
FMul(a, b) == (a * b) \div Scale

\* int(x): truncation toward zero.
PyInt(x) == IF x >= 0 THEN x \div Scale ELSE -((-x) \div Scale)

RECURSIVE SumSeq(_)
SumSeq(s) == IF s = <<>> THEN 0 ELSE Head(s) + SumSeq(Tail(s))

RECURSIVE SqrtBetween(_, _, _)
SqrtBetween(v, lo, hi) ==
    IF lo >= hi THEN lo
    ELSE LET mid == (lo + hi + 1) \div 2
         IN  IF mid * mid <= v THEN SqrtBetween(v, mid, hi)
             ELSE SqrtBetween(v, lo, mid - 1)

\* Square root of a float, rounded down to the resolution.
FSqrt(x) == SqrtBetween(x * Scale, 0, Min(x * Scale, 46340))

\* Series.mean() of a column of ints.
Mean(col) == (SumSeq(col) * Scale) \div Len(col)

\* Series.std() (sample standard deviation, ddof = 1) of a column of ints
\* with at least two entries.
Std(col) ==
    LET n == Len(col)
        s == SumSeq(col)
        dev == [i \in 1..n |-> (n * col[i] - s) * (n * col[i] - s)]
    IN  FSqrt((SumSeq(dev) * Scale) \div (n * n * (n - 1)))

\* ------------------------------------------------------------ the snapshot
\* A joined Order_Details x Orders row of one product: the month of OrderDate,
\* the line's Quantity, and date_diff('day', OrderDate, ShippedDate), None
\* while ShippedDate is NULL.
OrderLines ==
    [Month : Months, Quantity : Quantities,
     ActualLeadTime : {None} \cup {Some(l) : l \in LeadTimes}]

\* A Suppliers row as far as the join reads it.
SupplierRows == [LeadTimeDays : ContractLeadTimes]

\* A Products row with the supplier its SupplierID joins to (None: no such
\* Suppliers row) and the product's order lines.
ProductRow(stock, supplier, orders) ==
    [StockQuantity |-> stock, Supplier |-> supplier, Orders |-> orders]

SeqsUpTo(S, n) == UNION {[1..k -> S] : k \in 0..n}

\* Snapshots of one fully described product with every combination of up to
\* MaxOrders order lines.
WideSnapshots ==
    [{1} -> {ProductRow(st, su, os) :
                st \in Stocks, su \in {Some(r) : r \in SupplierRows}, os \in SeqsUpTo(OrderLines, MaxOrders)}]

\* Order histories of the two-product snapshots: none, one undelivered order,
\* one delivered order, two delivered orders in different months.
SampleOrders ==
    { <<>>,
      <<[Month |-> 1, Quantity |-> 300, ActualLeadTime |-> None]>>,
      <<[Month |-> 1, Quantity |-> 300, ActualLeadTime |-> Some(9)]>>,
      <<[Month |-> 1, Quantity |-> 300, ActualLeadTime |-> Some(1)],
        [Month |-> 2, Quantity |-> 45, ActualLeadTime |-> Some(9)]>> }

SampleSnapshots ==
    [{1, 2} -> {ProductRow(100, su, os) :
                   su \in {None} \cup {Some(r) : r \in SupplierRows}, os \in SampleOrders}]

\* -------------------------------------------------------------- queries
\* Variant: a LEFT JOIN, which yields a row for a product without supplier.
ProductDetailsLeftJoin(d, product_id) ==
    IF product_id \notin DOMAIN d THEN None
    ELSE Some([stock |-> d[product_id].StockQuantity,
               contract_lead_time |->
                   IF d[product_id].Supplier = None THEN 0
                   ELSE Val(d[product_id].Supplier).LeadTimeDays])

\* get_product_details: the Products JOIN Suppliers row of the product as a
\* dict, None when the join yields no row.
ProductDetailsQuery(d, product_id) ==
    IF product_id \notin DOMAIN d \/ d[product_id].Supplier = None THEN None
    ELSE Some([stock |-> d[product_id].StockQuantity,
               contract_lead_time |-> Val(d[product_id].Supplier).LeadTimeDays])

\* analyze_risk's query: the ActualLeadTime column of the delivered orders.
ShipmentQuery(d, product_id) ==
    LET os == d[product_id].Orders
        delivered == SelectSeq(os, LAMBDA o : o.ActualLeadTime # None)
    IN  [i \in 1..Len(delivered) |-> Val(delivered[i].ActualLeadTime)]

\* Variant: a zero summary instead of None for an empty frame.
RiskSummaryOfEmpty(df) ==
    IF df = <<>> THEN Some([avg |-> 0, std |-> 0])
    ELSE Some([avg |-> Mean(df), std |-> IF Len(df) > 1 THEN Std(df) ELSE 0])

\* analyze_risk's body after the query.
RiskSummary(df) ==
    IF df = <<>> THEN None
    ELSE Some([avg |-> Mean(df), std |-> IF Len(df) > 1 THEN Std(df) ELSE 0])

RECURSIVE Ascending(_)
Ascending(S) ==
    IF S = {} THEN <<>>
    ELSE LET m == CHOOSE x \in S : \A y \in S : x <= y
         IN  <<m>> \o Ascending(S \ {m})

\* get_demand_data: SUM(Quantity) GROUP BY Month ORDER BY Month.
DemandQuery(d, product_id) ==
    LET os == d[product_id].Orders
        months == Ascending({os[i].Month : i \in 1..Len(os)})
        qty(m) == SumSeq([i \in 1..Len(os) |->
                            IF os[i].Month = m THEN os[i].Quantity ELSE 0])
    IN  [k \in 1..Len(months) |-> [Month |-> months[k], Qty |-> qty(months[k])]]

\* ------------------------------------------------------- the optimization
\* daily_demand = sales_df['Qty'].mean() / 30.0
DailyDemand(sales_df) ==
    Mean([i \in 1..Len(sales_df) |-> sales_df[i].Qty]) \div DaysPerMonth

\* Variant: the delay penalty without its clamp at zero.
DelayPenaltyUnclamped(actual_lt, contract_lt) == (actual_lt - contract_lt) * DelayWeight

\* delay_penalty = max(0, actual_lt - contract_lt) * 10
DelayPenalty(actual_lt, contract_lt) == Max(0, actual_lt - contract_lt) * DelayWeight

\* variance_penalty = lt_variance * 5
VariancePenalty(lt_variance) == lt_variance * VarianceWeight

\* score = max(0, 100 - (delay_penalty + variance_penalty))
Score(delay_penalty, variance_penalty) ==
    Max(0, F(FullScore) - (delay_penalty + variance_penalty))

\* The float literal 1.65.
ZValue == (ZNum * Scale) \div ZDen

\* int((daily_demand * actual_lt) + (1.65 * lt_variance * daily_demand))
VarianceSafetyStock(daily_demand, actual_lt, lt_variance) ==
    PyInt(FMul(daily_demand, actual_lt) + FMul(FMul(ZValue, lt_variance), daily_demand))

\* Variant: the safety stock without the two-day lower bound.
RecSafetyStockUnbounded(daily_demand, actual_lt, lt_variance) ==
    VarianceSafetyStock(daily_demand, actual_lt, lt_variance)

\* rec_safety_stock after max(rec_safety_stock, int(daily_demand * 2))
RecSafetyStock(daily_demand, actual_lt, lt_variance) ==
    Max(VarianceSafetyStock(daily_demand, actual_lt, lt_variance),
        PyInt(daily_demand * BufferDays))

\* Variant: the reorder point without the safety stock.
ReorderPointWithoutStock(daily_demand, actual_lt, rec_safety_stock) ==
    FMul(daily_demand, actual_lt)

\* risk_adjusted_rop = (daily_demand * actual_lt) + rec_safety_stock
ReorderPoint(daily_demand, actual_lt, rec_safety_stock) ==
    FMul(daily_demand, actual_lt) + F(rec_safety_stock)

run_optimization(sales_df, risk_data, details) ==
    LET daily_demand == DailyDemand(sales_df)
        contract_lt == F(details.contract_lead_time)
        actual_lt == risk_data.avg
        lt_variance == risk_data.std
        score == Score(DelayPenalty(actual_lt, contract_lt), VariancePenalty(lt_variance))
        rec_safety_stock == RecSafetyStock(daily_demand, actual_lt, lt_variance)
        risk_adjusted_rop == ReorderPoint(daily_demand, actual_lt, rec_safety_stock)
    IN  [daily_demand |-> daily_demand, score |-> score,
         rec_safety_stock |-> rec_safety_stock, rop |-> risk_adjusted_rop,
         actual_lt |-> actual_lt, variance |-> lt_variance]

\* Variant: the tiers with inclusive thresholds.
ColorInclusive(score) ==
    IF score <= F(RedBelow) THEN "red"
    ELSE IF score <= F(OrangeBelow) THEN "orange" ELSE "green"

\* The colour of the score card.
Color(score) ==
    IF score < F(RedBelow) THEN "red"
    ELSE IF score < F(OrangeBelow) THEN "orange" ELSE "green"

\* The delay warning is shown below this score.
Warns(score) == score < F(WarnBelow)

\* The average delay the warning reports.
DelayDays(res, details) == res.actual_lt - F(details.contract_lead_time)

\* Variant: the projection without its clamp at zero.
ProjectionUnclamped(stock, daily_demand) ==
    [i \in 1..Horizon |-> [Day |-> i - 1, Stock |-> F(stock) - daily_demand * (i - 1)]]

\* sim_df: the projected stock of the days range(30).
Projection(stock, daily_demand) ==
    [i \in 1..Horizon |->
        [Day |-> i - 1, Stock |-> Max(0, F(stock) - daily_demand * (i - 1))]]

\* The guard of the analysis: risk_data and not sales_data.empty.
Sufficient(risk_data, sales_data) == risk_data # None /\ sales_data # <<>>

\* ---------------------------------------------------------------- state
VARIABLES
    db,          \* the read-only snapshot behind conn: product id -> its row
    cache,       \* st.cache_data of the three queries, keyed by product_id
    budget,      \* script runs still to come
    pc,          \* position of the script run
    pid,         \* the selected product
    details,     \* what get_product_details returned
    risk_data,   \* what analyze_risk returned
    sales_data,  \* what get_demand_data returned
    res,         \* what run_optimization returned
    view,        \* colour, reported delay and sim_df of the rendered analysis
    emitted,     \* the page elements written by this run
    faults,      \* the queries that raised in this run
    execs,       \* how often each query body ran in this run
    outcome,     \* how the run ended
    hist         \* the finished runs, oldest first

vars ==
    <<db, cache, budget, pc, pid, details, risk_data, sales_data, res, view,
      emitted, faults, execs, outcome, hist>>

Queries == {"get_product_details", "analyze_risk", "get_demand_data"}

\* Page elements that show a result of the analysis.
ResultElements ==
    {"header", "score_card", "delay_warning", "comparison_chart",
     "recommendation", "projection_chart"}

EmptyCache ==
    [get_product_details |-> <<>>, analyze_risk |-> <<>>, get_demand_data |-> <<>>]

NoView == [color |-> "", delay_days |-> None, sim_df |-> <<>>]

\* The state of a process that has not run the script body yet.
Fresh ==
    /\ cache = EmptyCache
    /\ pc = "idle"
    /\ pid = 0
    /\ details = None
    /\ risk_data = None
    /\ sales_data = <<>>
    /\ res = None
    /\ view = NoView
    /\ emitted = {}
    /\ faults = {}
    /\ execs = [q \in Queries |-> 0]
    /\ outcome = ""
    /\ hist = <<>>

Init ==
    /\ db \in SampleSnapshots
    /\ budget = MaxRequests
    /\ Fresh

InitWide ==
    /\ db \in WideSnapshots
    /\ budget = 1
    /\ Fresh

\* The run ends: its outcome is what the user sees, and it joins the history.
Finish(kind, r, fl) ==
    /\ pc' = "done"
    /\ outcome' = kind
    /\ hist' = Append(hist, [pid |-> pid, outcome |-> kind, res |-> r, faults |-> fl])

\* ------------------------------------------------------------- the script
\* A product is picked in the sidebar and the script runs from the top.
Select(p) ==
    /\ pc \in {"idle", "done"}
    /\ budget > 0
    /\ p \in DOMAIN db
    /\ budget' = budget - 1
    /\ pid' = p
    /\ pc' = "details"
    /\ details' = None
    /\ risk_data' = None
    /\ sales_data' = <<>>
    /\ res' = None
    /\ view' = NoView
    /\ emitted' = {}
    /\ faults' = {}
    /\ execs' = [q \in Queries |-> 0]
    /\ outcome' = ""
    /\ UNCHANGED <<db, cache, hist>>

\* details = get_product_details(conn, pid): from the cache, or the query runs
\* and its result is cached.
GetProductDetailsOk ==
    /\ pc = "details"
    /\ IF pid \in DOMAIN cache.get_product_details
       THEN /\ details' = cache.get_product_details[pid]
            /\ UNCHANGED <<cache, execs>>
       ELSE /\ details' = ProductDetailsQuery(db, pid)
            /\ cache' = [cache EXCEPT !.get_product_details = (pid :> details') @@ @]
            /\ execs' = [execs EXCEPT !.get_product_details = @ + 1]
    /\ pc' = "risk"
    /\ UNCHANGED <<db, budget, pid, risk_data, sales_data, res, view, emitted,
                   faults, outcome, hist>>

\* The details query raises: nothing catches it and the run ends with the
\* exception.
GetProductDetailsRaise ==
    /\ pc = "details"
    /\ pid \notin DOMAIN cache.get_product_details
    /\ execs' = [execs EXCEPT !.get_product_details = @ + 1]
    /\ faults' = faults \cup {"get_product_details"}
    /\ Finish("QueryError", res, faults')
    /\ UNCHANGED <<db, cache, budget, pid, details, risk_data, sales_data, res,
                   view, emitted>>

\* risk_data = analyze_risk(conn, pid): from the cache (the cached call's page
\* elements are replayed), or the query runs and the summary is cached.
AnalyzeRiskOk ==
    /\ pc = "risk"
    /\ IF pid \in DOMAIN cache.analyze_risk
       THEN /\ risk_data' = cache.analyze_risk[pid].value
            /\ emitted' = emitted \cup cache.analyze_risk[pid].elements
            /\ UNCHANGED <<cache, execs>>
       ELSE /\ risk_data' = RiskSummary(ShipmentQuery(db, pid))
            /\ cache' = [cache EXCEPT !.analyze_risk =
                            (pid :> [value |-> risk_data', elements |-> {}]) @@ @]
            /\ execs' = [execs EXCEPT !.analyze_risk = @ + 1]
            /\ UNCHANGED emitted
    /\ pc' = "demand"
    /\ UNCHANGED <<db, budget, pid, details, sales_data, res, view, faults,
                   outcome, hist>>

\* The query inside analyze_risk raises: the except branch writes st.error and
\* returns None, and that return value is cached like any other.
AnalyzeRiskRaise ==
    /\ pc = "risk"
    /\ pid \notin DOMAIN cache.analyze_risk
    /\ execs' = [execs EXCEPT !.analyze_risk = @ + 1]
    /\ faults' = faults \cup {"analyze_risk"}
    /\ emitted' = emitted \cup {"analyze_risk_error"}
    /\ risk_data' = None
    /\ cache' = [cache EXCEPT !.analyze_risk =
                    (pid :> [value |-> None, elements |-> {"analyze_risk_error"}]) @@ @]
    /\ pc' = "demand"
    /\ UNCHANGED <<db, budget, pid, details, sales_data, res, view, outcome, hist>>

\* sales_data = get_demand_data(conn, pid).
GetDemandDataOk ==
    /\ pc = "demand"
    /\ IF pid \in DOMAIN cache.get_demand_data
       THEN /\ sales_data' = cache.get_demand_data[pid]
            /\ UNCHANGED <<cache, execs>>
       ELSE /\ sales_data' = DemandQuery(db, pid)
            /\ cache' = [cache EXCEPT !.get_demand_data = (pid :> sales_data') @@ @]
            /\ execs' = [execs EXCEPT !.get_demand_data = @ + 1]
    /\ pc' = "header"
    /\ UNCHANGED <<db, budget, pid, details, risk_data, res, view, emitted,
                   faults, outcome, hist>>

\* The demand query raises: nothing catches it.
GetDemandDataRaise ==
    /\ pc = "demand"
    /\ pid \notin DOMAIN cache.get_demand_data
    /\ execs' = [execs EXCEPT !.get_demand_data = @ + 1]
    /\ faults' = faults \cup {"get_demand_data"}
    /\ Finish("QueryError", res, faults')
    /\ UNCHANGED <<db, cache, budget, pid, details, risk_data, sales_data, res,
                   view, emitted>>

\* The title and the four metrics: details['name'] on None raises TypeError
\* before anything is written.
RenderHeader ==
    /\ pc = "header"
    /\ IF details = None
       THEN /\ Finish("TypeError", res, faults)
            /\ UNCHANGED emitted
       ELSE /\ emitted' = emitted \cup {"header"}
            /\ pc' = "check"
            /\ UNCHANGED <<outcome, hist>>
    /\ UNCHANGED <<db, cache, budget, pid, details, risk_data, sales_data, res,
                   view, faults, execs>>

\* The analysis branch: run_optimization, the score card, the delay warning,
\* the comparison chart, the recommendation and the projection.
RenderAnalysis ==
    /\ pc = "check"
    /\ Sufficient(risk_data, sales_data)
    /\ LET r == run_optimization(sales_data, Val(risk_data), Val(details))
       IN  /\ res' = Some(r)
           /\ view' = [color |-> Color(r.score),
                       delay_days |-> IF Warns(r.score)
                                      THEN Some(DelayDays(r, Val(details)))
                                      ELSE None,
                       sim_df |-> Projection(Val(details).stock, r.daily_demand)]
           /\ emitted' = emitted
                 \cup {"score_card", "comparison_chart", "recommendation", "projection_chart"}
                 \cup (IF Warns(r.score) THEN {"delay_warning"} ELSE {})
           /\ Finish("Result", res', faults)
    /\ UNCHANGED <<db, cache, budget, pid, details, risk_data, sales_data,
                   faults, execs>>

\* The else branch: the insufficient-data warning.
RenderInsufficient ==
    /\ pc = "check"
    /\ ~Sufficient(risk_data, sales_data)
    /\ emitted' = emitted \cup {"insufficient_warning"}
    /\ Finish("Insufficient", res, faults)
    /\ UNCHANGED <<db, cache, budget, pid, details, risk_data, sales_data, res,
                   view, faults, execs>>

\* The process is started again: scm.duckdb exists and is kept as it is, the
\* in-memory caches start empty.
Restart ==
    /\ pc = "done"
    /\ budget > 0
    /\ cache # EmptyCache
    /\ cache' = EmptyCache
    /\ pc' = "idle"
    /\ UNCHANGED <<db, budget, pid, details, risk_data, sales_data, res, view,
                   emitted, faults, execs, outcome, hist>>

Next ==
    \/ \E p \in DOMAIN db : Select(p)
    \/ GetProductDetailsOk
    \/ GetProductDetailsRaise
    \/ AnalyzeRiskOk
    \/ AnalyzeRiskRaise
    \/ GetDemandDataOk
    \/ GetDemandDataRaise
    \/ RenderHeader
    \/ RenderAnalysis
    \/ RenderInsufficient
    \/ Restart

Spec == Init /\ [][Next]_vars

\* The fault-free single run over the wide snapshots.
NextWide ==
    \/ \E p \in DOMAIN db : Select(p)
    \/ GetProductDetailsOk
    \/ AnalyzeRiskOk
    \/ GetDemandDataOk
    \/ RenderHeader
    \/ RenderAnalysis
    \/ RenderInsufficient

SpecWide == InitWide /\ [][NextWide]_vars

\* ================================================================ claims
\* The snapshot's rows behind the current run.
DemandEmpty == DemandQuery(db, pid) = <<>>

ShipmentsEmpty == ShipmentQuery(db, pid) = <<>>

NoSupplierRow == db[pid].Supplier = None

\* The faults that nothing catches.
Propagated == faults \cap {"get_product_details", "get_demand_data"}

\* C1 (as stated, already for the runs in which no query raised): every run
\* over a product whose monthly demand or delivered shipment history is empty
\* ends in the insufficient-data outcome without run_optimization having run,
\* and run_optimization runs only on a present summary and a non-empty demand
\* frame.
C1_AlwaysInsufficient ==
    /\ (pc = "done" /\ faults = {} /\ (DemandEmpty \/ ShipmentsEmpty))
          => (outcome = "Insufficient" /\ res = None)
    /\ res # None => (risk_data # None /\ sales_data # <<>>)

\* C1 (amended): with an empty monthly demand or an empty delivered shipment
\* history run_optimization never runs and no numeric result is produced; the
\* run ends in the insufficient-data outcome exactly when it reaches the
\* sufficiency check, i.e. the product has details and neither the details nor
\* the demand query raised; run_optimization runs only on a present summary
\* and a non-empty demand frame.
C1_InsufficientWhenChecked ==
    /\ (pc = "done" /\ (DemandEmpty \/ ShipmentsEmpty))
          => /\ res = None
             /\ outcome # "Result"
             /\ emitted \cap (ResultElements \ {"header"}) = {}
             /\ (outcome = "Insufficient") <=> (~NoSupplierRow /\ Propagated = {})
             /\ (outcome = "Insufficient") <=> ("insufficient_warning" \in emitted)
    /\ res # None => (risk_data # None /\ sales_data # <<>>)

\* A product with orders but no delivered one, analysed to the warning.
C1_Witness ==
    /\ pc = "done"
    /\ ShipmentsEmpty
    /\ ~DemandEmpty
    /\ outcome = "Insufficient"
    /\ execs["analyze_risk"] = 1

\* C2 (as stated): when get_product_details returns None for the product (no
\* supplier row joins), the run fails with the unknown-product outcome (the
\* TypeError of the header) and emits no metric, score, recommendation or
\* projection.
C2_UnknownProductFails ==
    (pc = "done" /\ NoSupplierRow /\ "get_product_details" \notin faults)
       => /\ outcome = "TypeError"
          /\ res = None
          /\ emitted \cap ResultElements = {}

\* C2 (amended): such a run fails with the unknown-product outcome unless the
\* monthly-demand query raises first, in which case it fails with the query
\* error; in both cases nothing of a result is emitted.
C2_UnknownProductOrQueryError ==
    (pc = "done" /\ NoSupplierRow /\ "get_product_details" \notin faults)
       => /\ outcome = IF "get_demand_data" \in faults THEN "QueryError" ELSE "TypeError"
          /\ res = None
          /\ view = NoView
          /\ emitted \cap ResultElements = {}

\* A product without supplier row whose run died in the header.
C2_Witness ==
    /\ pc = "done"
    /\ NoSupplierRow
    /\ details = None
    /\ execs["get_product_details"] = 1
    /\ outcome = "TypeError"

\* C3: a run in which a query raised (over a product that has details) ends in
\* the query-error outcome, which is neither the insufficient-data outcome nor
\* a result, and the raising query ran exactly once.
C3_FaultIsDistinctOutcome ==
    (pc = "done" /\ faults # {} /\ ~NoSupplierRow)
       => /\ outcome = "QueryError"
          /\ outcome \notin {"Insufficient", "Result"}
          /\ \A q \in faults : execs[q] = 1

\* C9: a finished run in which no query raised has the same outcome and the
\* same result as every earlier run over the same product in which no query
\* other than analyze_risk's raised, whether it was served from the cache or
\* recomputed from the store.
C9_SameOutcomeTwice ==
    \A i, j \in 1..Len(hist) :
        (/\ i < j
         /\ hist[i].pid = hist[j].pid
         /\ hist[i].faults \subseteq {"analyze_risk"}
         /\ hist[j].faults = {})
           => (hist[i].outcome = hist[j].outcome /\ hist[i].res = hist[j].res)

\* The contracted lead time and the summary the result was computed from.
ContractLT == F(Val(details).contract_lead_time)

ActualLT == Val(risk_data).avg

LTStd == Val(risk_data).std

\* C4: every result's reliability score lies in [0, 100] and equals
\* max(0, 100 - (max(0, actual - contracted) * 10 + stddev * 5)), the standard
\* deviation being >= 0.
C4_ScoreInRange ==
    res # None =>
        /\ LTStd >= 0
        /\ Val(res).score >= 0
        /\ Val(res).score <= 100 * Scale
        /\ Val(res).score =
              Max(0, 100 * Scale - (Max(0, ActualLT - ContractLT) * 10 + LTStd * 5))

\* A result whose penalties exceed 100: the score is clamped to 0.
C4_Witness ==
    /\ res # None
    /\ Max(0, ActualLT - ContractLT) * 10 + LTStd * 5 > 100 * Scale
    /\ Val(res).score = 0

\* C5: every result's recommended safety stock is at least
\* round_down(daily_demand * 2).
C5_TwoDayFloor ==
    res # None => Val(res).rec_safety_stock >= PyInt(Val(res).daily_demand * 2)

\* A result with a negative mean lead time, where the variance-driven term is
\* below the two-day buffer.
C5_Witness ==
    /\ res # None
    /\ ActualLT < 0
    /\ VarianceSafetyStock(Val(res).daily_demand, ActualLT, LTStd)
          < PyInt(Val(res).daily_demand * 2)

\* C6: every result's reorder point equals daily_demand * actual_lt +
\* rec_safety_stock on the values returned in that result.
C6_ReorderPointIdentity ==
    res # None =>
        Val(res).rop =
            FMul(Val(res).daily_demand, Val(res).actual_lt)
               + Val(res).rec_safety_stock * Scale

\* A result whose safety stock is the two-day buffer, above the
\* variance-driven term, with a positive lead time.
C6_Witness ==
    /\ res # None
    /\ ActualLT > 0
    /\ Val(res).rec_safety_stock > 0
    /\ Val(res).rec_safety_stock = PyInt(Val(res).daily_demand * 2)
    /\ Val(res).rec_safety_stock
          > VarianceSafetyStock(Val(res).daily_demand, ActualLT, LTStd)

\* C7: the tier is red iff score < 60, orange iff 60 <= score < 80, green iff
\* score >= 80.
C7_Tiers ==
    res # None =>
        /\ view.color \in {"red", "orange", "green"}
        /\ (view.color = "red") <=> (Val(res).score < 60 * Scale)
        /\ (view.color = "orange")
              <=> (60 * Scale <= Val(res).score /\ Val(res).score < 80 * Scale)
        /\ (view.color = "green") <=> (Val(res).score >= 80 * Scale)

\* A score of exactly 60, shown as moderate risk.
C7_Witness ==
    /\ res # None
    /\ Val(res).score = 60 * Scale
    /\ view.color = "orange"

\* C8: the projection has exactly 30 rows, for the days 0..29 in ascending
\* order, with stock max(0, stock_on_hand - daily_demand * day); it starts at
\* the stock on hand, is never negative, never increases and stays 0 once 0.
C8_Projection ==
    res # None =>
        LET sim == view.sim_df
            stock == Val(details).stock * Scale
        IN  /\ Len(sim) = 30
            /\ \A i \in 1..30 :
                  /\ sim[i].Day = i - 1
                  /\ sim[i].Stock = Max(0, stock - Val(res).daily_demand * (i - 1))
                  /\ sim[i].Stock >= 0
            /\ sim[1].Stock = stock
            /\ \A i \in 1..29 :
                  /\ sim[i + 1].Stock <= sim[i].Stock
                  /\ sim[i].Stock = 0 => sim[i + 1].Stock = 0

\* A projection that starts positive and runs out within the horizon.
C8_Witness ==
    /\ res # None
    /\ view.sim_df[1].Stock > 0
    /\ view.sim_df[15].Stock > 0
    /\ view.sim_df[30].Stock = 0

\* C10: the delay warning is shown iff the score is below 80, and the average
\* delay it reports is strictly positive.
C10_ReportedDelayPositive ==
    res # None =>
        /\ ("delay_warning" \in emitted) <=> (Val(res).score < 80 * Scale)
        /\ "delay_warning" \in emitted => Val(view.delay_days) > 0

====
